---- MODULE Spec2Model ----
(***************************************************************************)
(* CacheQueue<ValueType, CacheSize> of src/cachequeue.hpp: a fixed size    *)
(* ring of CacheSize slots (m_CircleQ) with the index of the logical front *)
(* (m_Head) and the number of stored elements (m_CurrSize).                *)
(*                                                                         *)
(* Every member function is an operator on an object value                 *)
(*     [m_CircleQ |-> slots, m_Head |-> h, m_CurrSize |-> n]               *)
(* so that Rotate can call PopHead/PushBack/PopBack/PushHead on the object *)
(* the way the source does, and one action per public mutator applies the  *)
(* operator to the object held in the variables.                           *)
(***************************************************************************)
EXTENDS Integers, Sequences, FiniteSets, TLC

(***************************************************************************)
(* Bounds of the model.                                                    *)
(***************************************************************************)
MaxCacheSize == 3   \* CacheSize ranges over 1..MaxCacheSize
MaxValue     == 1   \* ValueType is 0..MaxValue
MaxRotate    == 6   \* Rotate is called with -MaxRotate..MaxRotate and INT_MIN
MaxPushes    == 5   \* longest PushBack-only run that is followed from construction

\* int nRotate is 32 bits wide.
INT_MAX == 2147483647
INT_MIN == -INT_MAX - 1

\* ValueType(): the value-initialised element of m_CircleQ().
DefaultValue == 0

Values == 0 .. MaxValue

RotateArgs == (-MaxRotate .. MaxRotate) \cup {INT_MIN}

\* std::abs(INT_MIN) overflows (undefined behaviour).  Two outcomes are
\* produced by builds of the source: the negation wraps to INT_MIN, so that
\* neither loop of Rotate runs ("wraps"), or the optimiser runs the
\* back-to-head loop -nRotate = 2^31 times ("counts").  Every other argument
\* has its absolute value ("defined").
AbsOutcomes(nRotate) == IF nRotate = INT_MIN THEN {"wraps", "counts"} ELSE {"defined"}

VARIABLES
    m_CircleQ,      \* std::array<ValueType, CacheSize>: [0..CacheSize-1 -> Values]
    m_Head,         \* size_t: slot of the logical front
    m_CurrSize,     \* size_t: number of stored elements
    call,           \* history: the last member function called, with its argument
    prior,          \* history: the object before that call
    idiom,          \* history: the two-call sequence the last two calls form, or ""
    prior2,         \* history: <<the object before the two calls>> of idiom, else <<>>
    pushed,         \* history: the arguments of the PushBack calls since construction
    onlyPushBack,   \* history: nothing but (at most MaxPushes) PushBack calls so far
    step,           \* history: the calls since construction are the first step calls
                    \*          of Scenario on a queue of capacity 3; else -1
    followClear,    \* whether a second queue is run side by side after Clear()
    twin            \* <<a newly constructed queue that was given every call since
                    \*   the last Clear()>> when followClear, else <<>>

vars == <<m_CircleQ, m_Head, m_CurrSize, call, prior, idiom, prior2, pushed, onlyPushBack,
          step, followClear, twin>>

\* The object the variables hold.
This == [m_CircleQ |-> m_CircleQ, m_Head |-> m_Head, m_CurrSize |-> m_CurrSize]

(***************************************************************************)
(* Accessors.                                                              *)
(***************************************************************************)
Capacity(q) == Cardinality(DOMAIN q.m_CircleQ)

\* Size() is called by Length() and declared nowhere in the source; it is the
\* count of stored elements, the one Empty() and Full() read.
Size(q) == q.m_CurrSize

Length(q) == Size(q)

Empty(q) == q.m_CurrSize = 0

Full(q) == q.m_CurrSize = Capacity(q)

\* Head() (the name Head is taken by Sequences)
HeadValue(q) == q.m_CircleQ[q.m_Head]

Back(q) == q.m_CircleQ[(q.m_Head + Length(q) + Capacity(q) - 1) % Capacity(q)]

\* An operator [] that indexes the array from slot 0, not from m_Head.
AtIgnoresHead(q, nIndex) == q.m_CircleQ[(nIndex + Capacity(q)) % Capacity(q)]

\* operator [] (size_t nIndex)
At(q, nIndex) == q.m_CircleQ[(q.m_Head + nIndex + Capacity(q)) % Capacity(q)]

HeadOff(q) == q.m_Head

BackOff(q) == (q.m_Head + Length(q) - 1 + Capacity(q)) % Capacity(q)

\* A std::min that was left out: the first argument as it is.
MinTakesFirst(a, b) == a

\* std::min<size_t>
Min(a, b) == IF a < b THEN a ELSE b

\* The iteration idiom of the file header: stQ[0], ..., stQ[Length()-1].
Content(q) == [nIndex \in 1 .. Length(q) |-> At(q, nIndex - 1)]

(***************************************************************************)
(* Mutators.                                                               *)
(***************************************************************************)
\* A PushHead that stores at the old front slot and only then steps m_Head back.
PushHeadStoresFirst(q, u) ==
    IF Empty(q)
    THEN [q EXCEPT !.m_Head = 0, !.m_CircleQ[0] = u, !.m_CurrSize = 1]
    ELSE [q EXCEPT !.m_CircleQ[q.m_Head] = u,
                   !.m_Head = (q.m_Head + Capacity(q) - 1) % Capacity(q),
                   !.m_CurrSize = Min(q.m_CurrSize + 1, Capacity(q))]

\* A PushHead without the branch for the empty queue.
PushHeadNoEmptyCase(q, u) ==
    LET h == (q.m_Head + Capacity(q) - 1) % Capacity(q)
    IN  [q EXCEPT !.m_Head = h,
                  !.m_CircleQ[h] = u,
                  !.m_CurrSize = Min(q.m_CurrSize + 1, Capacity(q))]

PushHead(q, u) ==
    IF Empty(q)
    THEN [q EXCEPT !.m_Head = 0, !.m_CircleQ[0] = u, !.m_CurrSize = 1]
    ELSE LET h == (q.m_Head + Capacity(q) - 1) % Capacity(q)
         IN  [q EXCEPT !.m_Head = h,
                       !.m_CircleQ[h] = u,
                       !.m_CurrSize = Min(q.m_CurrSize + 1, Capacity(q))]

\* A PushBack that overwrites the front slot of a full queue and leaves m_Head.
PushBackKeepsHead(q, u) ==
    IF Empty(q)
    THEN [q EXCEPT !.m_Head = 0, !.m_CircleQ[0] = u, !.m_CurrSize = 1]
    ELSE IF Full(q)
    THEN [q EXCEPT !.m_CircleQ[q.m_Head] = u]
    ELSE [q EXCEPT !.m_CircleQ[(q.m_Head + Length(q)) % Capacity(q)] = u,
                   !.m_CurrSize = Min(q.m_CurrSize + 1, Capacity(q))]

\* A PushBack that drops the pushed element when the queue is full.
PushBackDropsNew(q, u) ==
    IF Empty(q)
    THEN [q EXCEPT !.m_Head = 0, !.m_CircleQ[0] = u, !.m_CurrSize = 1]
    ELSE IF Full(q)
    THEN q
    ELSE [q EXCEPT !.m_CircleQ[(q.m_Head + Length(q)) % Capacity(q)] = u,
                   !.m_CurrSize = Min(q.m_CurrSize + 1, Capacity(q))]

PushBack(q, u) ==
    IF Empty(q)
    THEN [q EXCEPT !.m_Head = 0, !.m_CircleQ[0] = u, !.m_CurrSize = 1]
    ELSE IF Full(q)
    THEN [q EXCEPT !.m_CircleQ[q.m_Head] = u,
                   !.m_Head = (q.m_Head + 1) % Capacity(q)]
    ELSE [q EXCEPT !.m_CircleQ[(q.m_Head + Length(q)) % Capacity(q)] = u,
                   !.m_CurrSize = Min(q.m_CurrSize + 1, Capacity(q))]

\* A PopHead that steps m_Head without the modulo.
PopHeadNoWrap(q) ==
    IF ~Empty(q)
    THEN [q EXCEPT !.m_Head = q.m_Head + 1,
                   !.m_CurrSize = q.m_CurrSize - 1]
    ELSE q

\* A PopHead that resets the slot it vacates.
PopHeadClearsSlot(q) ==
    IF ~Empty(q)
    THEN [q EXCEPT !.m_CircleQ[q.m_Head] = DefaultValue,
                   !.m_Head = (q.m_Head + 1) % Capacity(q),
                   !.m_CurrSize = q.m_CurrSize - 1]
    ELSE q

\* A PopHead with the body of PopBack.
PopHeadKeepsHead(q) ==
    IF ~Empty(q)
    THEN [q EXCEPT !.m_CurrSize = q.m_CurrSize - 1]
    ELSE q

PopHead(q) ==
    IF ~Empty(q)
    THEN [q EXCEPT !.m_Head = (q.m_Head + 1) % Capacity(q),
                   !.m_CurrSize = q.m_CurrSize - 1]
    ELSE q

\* A PopBack with the body of PopHead.
PopBackMovesHead(q) ==
    IF ~Empty(q)
    THEN [q EXCEPT !.m_Head = (q.m_Head + 1) % Capacity(q),
                   !.m_CurrSize = q.m_CurrSize - 1]
    ELSE q

PopBack(q) ==
    IF ~Empty(q)
    THEN [q EXCEPT !.m_CurrSize = q.m_CurrSize - 1]
    ELSE q

Clear(q) == [q EXCEPT !.m_Head = 0, !.m_CurrSize = 0]

\* Reset() calls std::rotate(first, middle, last) with middle = end() and
\* last = begin() + m_Head: [middle, last) is no valid range, which is
\* undefined behaviour.  The call is handed the array alone and assigns neither
\* m_Head nor m_CurrSize; the element swaps run past the front of the array,
\* so each slot ends with an old element or with whatever lay before the
\* object.  The outcomes are all slot contents, m_Head and m_CurrSize kept.
Reset(q) == {[q EXCEPT !.m_CircleQ = s] : s \in [DOMAIN q.m_CircleQ -> Values]}

\* A head-to-back loop that pushes before it pops.
RECURSIVE RotateHeadToBackPushFirst(_, _)
RotateHeadToBackPushFirst(q, nCount) ==
    IF nCount <= 0
    THEN q
    ELSE LET stHead == HeadValue(q)
         IN  RotateHeadToBackPushFirst(PopHead(PushBack(q, stHead)), nCount - 1)

\* for(nIndex = 0; nIndex < nCount; ++nIndex){ stHead = Head(); PopHead(); PushBack(stHead); }
RECURSIVE RotateHeadToBack(_, _)
RotateHeadToBack(q, nCount) ==
    IF nCount <= 0
    THEN q
    ELSE LET stHead == HeadValue(q)
         IN  RotateHeadToBack(PushBack(PopHead(q), stHead), nCount - 1)

\* for(nIndex = 0; nIndex < nCount; ++nIndex){ stBack = Back(); PopBack(); PushHead(stBack); }
RECURSIVE RotateBackToHead(_, _)
RotateBackToHead(q, nCount) ==
    IF nCount <= 0
    THEN q
    ELSE LET stBack == Back(q)
         IN  RotateBackToHead(PushHead(PopBack(q), stBack), nCount - 1)

\* 2^31 passes of the back-to-head loop.  From the Capacity-th pass on every
\* slot has been written by the loop and the object repeats with a period
\* that divides Capacity * Length, so the passes are counted modulo that
\* period, above Capacity * Length.  (2^31 is written INT_MAX + 1 piecewise.)
CountsPasses(q) ==
    LET nPeriod == Capacity(q) * Length(q)
    IN  nPeriod + (((INT_MAX % nPeriod) + 1) % nPeriod)

\* std::abs<int>
Abs(n) == IF n < 0 THEN -n ELSE n

\* A Rotate whose loops start at nIndex = 1.
RotateOneShort(q, nRotate, ub) ==
    IF ~Empty(q)
    THEN IF nRotate = INT_MIN
         THEN IF ub = "wraps"
              THEN q
              ELSE RotateBackToHead(q, CountsPasses(q) - 1)
         ELSE LET nCount == Abs(nRotate)
              IN  IF nCount # 0
                  THEN IF nRotate > 0
                       THEN RotateHeadToBack(q, nCount - 1)
                       ELSE RotateBackToHead(q, nCount - 1)
                  ELSE q
    ELSE q

\* A Rotate that takes the head-to-back loop for either sign.
RotateIgnoresSign(q, nRotate, ub) ==
    IF ~Empty(q)
    THEN IF nRotate = INT_MIN
         THEN IF ub = "wraps"
              THEN q
              ELSE RotateHeadToBack(q, CountsPasses(q))
         ELSE LET nCount == Abs(nRotate)
              IN  IF nCount # 0
                  THEN RotateHeadToBack(q, nCount)
                  ELSE q
    ELSE q

\* ub: the outcome of std::abs(nRotate), one of AbsOutcomes(nRotate).
Rotate(q, nRotate, ub) ==
    IF ~Empty(q)
    THEN IF nRotate = INT_MIN
         THEN IF ub = "wraps"
              THEN q
              ELSE RotateBackToHead(q, CountsPasses(q))
         ELSE LET nCount == Abs(nRotate)
              IN  IF nCount # 0
                  THEN IF nRotate > 0
                       THEN RotateHeadToBack(q, nCount)
                       ELSE RotateBackToHead(q, nCount)
                  ELSE q
    ELSE q

(***************************************************************************)
(* The state machine: the object after construction, and one action per    *)
(* public mutator.                                                         *)
(***************************************************************************)
\* The two-call sequence that the call (name, arg) completes.
Idiom(name, arg) ==
    IF call.name = "PushBack" /\ name = "PopBack" THEN "PushBack;PopBack"
    ELSE IF call.name = "PushHead" /\ name = "PopHead" THEN "PushHead;PopHead"
    ELSE IF /\ call.name = "Rotate" /\ name = "Rotate"
            /\ call.arg # INT_MIN /\ arg = -call.arg THEN "Rotate;Rotate"
    ELSE IF call.name = "Reset" /\ name = "Reset" THEN "Reset;Reset"
    ELSE ""

\* The values and the calls of the scenario of the specification's section 8,
\* made on a newly constructed queue of capacity 3.
ScenarioValues == {1, 2, 3, 4, 9}

Scenario ==
    << [name |-> "PushBack", arg |-> 1],
       [name |-> "PushBack", arg |-> 2],
       [name |-> "PushBack", arg |-> 3],
       [name |-> "PushBack", arg |-> 4],
       [name |-> "PopHead",  arg |-> 0],
       [name |-> "PushHead", arg |-> 9],
       [name |-> "Rotate",   arg |-> 1] >>

\* CacheQueue(): the object of capacity CacheSize after construction.
Constructed(CacheSize) ==
    [m_CircleQ |-> [nIndex \in 0 .. CacheSize - 1 |-> DefaultValue],
     m_Head |-> 0,
     m_CurrSize |-> 0]

\* The second queue (This where there is none, to have an object to call).
Twin == IF twin = <<>> THEN This ELSE twin[1]

\* The call name leaves the second queue as one of the objects ts; Clear()
\* starts the second queue anew.
Followed(name, ts) ==
    /\ followClear' = followClear
    /\ twin' \in IF ~followClear THEN {<<>>}
                 ELSE IF name = "Clear" THEN {<<Constructed(Capacity(This))>>}
                 ELSE IF twin = <<>> THEN {<<>>}
                 ELSE {<<t>> : t \in ts}

\* The call name(arg) leaves the object q.
Called(name, arg, q) ==
    /\ m_CircleQ' = q.m_CircleQ
    /\ m_Head' = q.m_Head
    /\ m_CurrSize' = q.m_CurrSize
    /\ call' = [name |-> name, arg |-> arg]
    /\ prior' = This
    /\ idiom' = Idiom(name, arg)
    /\ prior2' = IF Idiom(name, arg) \in {"PushBack;PopBack", "PushHead;PopHead", "Rotate;Rotate"}
                 THEN <<prior>>
                 ELSE <<>>
    /\ onlyPushBack' = (name = "PushBack" /\ onlyPushBack /\ Len(pushed) < MaxPushes)
    /\ pushed' = IF name = "PushBack" /\ onlyPushBack /\ Len(pushed) < MaxPushes
                 THEN Append(pushed, arg)
                 ELSE <<>>
    /\ step' = IF /\ step >= 0 /\ step < Len(Scenario)
                  /\ Capacity(This) = 3
                  /\ [name |-> name, arg |-> arg] = Scenario[step + 1]
               THEN step + 1
               ELSE -1

Init ==
    /\ \E CacheSize \in 1 .. MaxCacheSize :
           m_CircleQ = [nIndex \in 0 .. CacheSize - 1 |-> DefaultValue]
    /\ m_Head = 0
    /\ m_CurrSize = 0
    /\ call = [name |-> "CacheQueue", arg |-> 0]
    /\ prior = This
    /\ idiom = ""
    /\ prior2 = <<>>
    /\ pushed = <<>>
    /\ onlyPushBack = TRUE
    /\ step = 0
    /\ followClear = FALSE
    /\ twin = <<>>

\* Construction of a queue of capacity 3.
InitScenario ==
    /\ m_CircleQ = [nIndex \in 0 .. 2 |-> DefaultValue]
    /\ m_Head = 0
    /\ m_CurrSize = 0
    /\ call = [name |-> "CacheQueue", arg |-> 0]
    /\ prior = This
    /\ idiom = ""
    /\ prior2 = <<>>
    /\ pushed = <<>>
    /\ onlyPushBack = TRUE
    /\ step = 0
    /\ followClear = FALSE
    /\ twin = <<>>

\* Construction, with a second queue run side by side after every Clear().
InitAfterClear ==
    /\ \E CacheSize \in 1 .. MaxCacheSize :
           m_CircleQ = [nIndex \in 0 .. CacheSize - 1 |-> DefaultValue]
    /\ m_Head = 0
    /\ m_CurrSize = 0
    /\ call = [name |-> "CacheQueue", arg |-> 0]
    /\ prior = This
    /\ idiom = ""
    /\ prior2 = <<>>
    /\ pushed = <<>>
    /\ onlyPushBack = TRUE
    /\ step = 0
    /\ followClear = TRUE
    /\ twin = <<>>

CallPushHead(u) ==
    /\ Called("PushHead", u, PushHead(This, u))
    /\ Followed("PushHead", {PushHead(Twin, u)})

CallPushBack(u) ==
    /\ Called("PushBack", u, PushBack(This, u))
    /\ Followed("PushBack", {PushBack(Twin, u)})

CallPopHead ==
    /\ Called("PopHead", 0, PopHead(This))
    /\ Followed("PopHead", {PopHead(Twin)})

CallPopBack ==
    /\ Called("PopBack", 0, PopBack(This))
    /\ Followed("PopBack", {PopBack(Twin)})

CallClear ==
    /\ Called("Clear", 0, Clear(This))
    /\ Followed("Clear", {Clear(Twin)})

CallReset ==
    /\ \E q \in Reset(This) : Called("Reset", 0, q)
    /\ Followed("Reset", Reset(Twin))

CallRotate(nRotate, ub) ==
    /\ Called("Rotate", nRotate, Rotate(This, nRotate, ub))
    /\ Followed("Rotate", {Rotate(Twin, nRotate, ub)})

Next ==
    \/ \E u \in Values : CallPushHead(u)
    \/ \E u \in Values : CallPushBack(u)
    \/ CallPopHead
    \/ CallPopBack
    \/ CallClear
    \/ CallReset
    \/ \E nRotate \in RotateArgs : \E ub \in AbsOutcomes(nRotate) : CallRotate(nRotate, ub)

Spec == Init /\ [][Next]_vars

\* The calls other than Reset.
NextNoReset ==
    \/ \E u \in Values : CallPushHead(u)
    \/ \E u \in Values : CallPushBack(u)
    \/ CallPopHead
    \/ CallPopBack
    \/ CallClear
    \/ \E nRotate \in RotateArgs : \E ub \in AbsOutcomes(nRotate) : CallRotate(nRotate, ub)

SpecNoReset == Init /\ [][NextNoReset]_vars

\* The calls other than Reset with the values of the scenario.
NextScenario ==
    \/ \E u \in ScenarioValues : CallPushHead(u)
    \/ \E u \in ScenarioValues : CallPushBack(u)
    \/ CallPopHead
    \/ CallPopBack
    \/ CallClear
    \/ \E nRotate \in RotateArgs : \E ub \in AbsOutcomes(nRotate) : CallRotate(nRotate, ub)

SpecScenario == InitScenario /\ [][NextScenario]_vars

SpecAfterClear == InitAfterClear /\ [][Next]_vars

SpecAfterClearNoReset == InitAfterClear /\ [][NextNoReset]_vars

(***************************************************************************)
(* Properties.                                                             *)
(***************************************************************************)
\* The elements of the sequence s differ pairwise.
Distinct(s) == \A i, j \in DOMAIN s : i # j => s[i] # s[j]

\* C1: after any sequence of PushHead, PushBack, PopHead, PopBack, Clear,
\* Reset and Rotate calls on a queue of capacity N >= 1,
\* 0 <= length <= N and 0 <= head < N.
C1_LengthAndHeadInRange ==
    /\ Capacity(This) >= 1
    /\ 0 <= m_CurrSize /\ m_CurrSize <= Capacity(This)
    /\ 0 <= m_Head /\ m_Head < Capacity(This)

\* C1 witness: PushHead on a full queue whose front is slot 0 wraps the front
\* to the last slot and keeps the length at the capacity.
C1_Witness ==
    /\ call.name = "PushHead"
    /\ Full(prior) /\ prior.m_Head = 0 /\ Capacity(prior) >= 2
    /\ m_Head = Capacity(This) - 1
    /\ m_CurrSize = Capacity(This)

\* C2: PushBack(x) on a full queue e0..e_{N-1} leaves e1..e_{N-1}, x and the
\* length N.
C2_PushBackOnFull ==
    (call.name = "PushBack" /\ Full(prior)) =>
        /\ Length(This) = Capacity(This)
        /\ Content(This) = Tail(Content(prior)) \o <<call.arg>>

\* C2 witness: PushBack on a full queue of capacity 3 or more whose front is
\* not slot 0 and differs from the second element, of an element other than
\* the old back.
C2_Witness ==
    /\ call.name = "PushBack"
    /\ Full(prior) /\ Capacity(prior) >= 3 /\ prior.m_Head # 0
    /\ Content(prior)[1] # Content(prior)[2]
    /\ call.arg # Content(prior)[Capacity(prior)]

\* C3: PushHead(x) on a full queue e0..e_{N-1} leaves x, e0..e_{N-2} and the
\* length N.
C3_PushHeadOnFull ==
    (call.name = "PushHead" /\ Full(prior)) =>
        /\ Length(This) = Capacity(This)
        /\ Content(This) =
               <<call.arg>> \o SubSeq(Content(prior), 1, Capacity(prior) - 1)

\* C3 witness: PushHead on a full queue of capacity 3 or more whose front is
\* not slot 0 and whose back differs from the element before it, of an
\* element other than the old front.
C3_Witness ==
    /\ call.name = "PushHead"
    /\ Full(prior) /\ Capacity(prior) >= 3 /\ prior.m_Head # 0
    /\ Content(prior)[Capacity(prior)] # Content(prior)[Capacity(prior) - 1]
    /\ call.arg # Content(prior)[1]

\* C4: after m PushBack calls with v1..vm on a newly constructed queue and no
\* other call, the length is min(m, N) and the content is the last min(m, N)
\* pushed values in push order.
C4_LastPushesRetained ==
    onlyPushBack =>
        LET m == Len(pushed)
            n == Min(m, Capacity(This))
        IN  /\ Length(This) = n
            /\ Content(This) = SubSeq(pushed, m - n + 1, m)

\* C4 witness: two pushes more than the capacity (3 or more), the last
\* dropped value other than the first retained one and the retained values
\* not all equal.
C4_Witness ==
    /\ onlyPushBack
    /\ Capacity(This) >= 3
    /\ Len(pushed) = Capacity(This) + 2
    /\ pushed[2] # pushed[3]
    /\ Content(This)[1] # Content(This)[Capacity(This)]

\* C5: on a queue that is not full, PushBack(x) then PopBack() restores the
\* length and leaves every element of the content unchanged in value and
\* order.
C5_PushBackPopBack ==
    (idiom = "PushBack;PopBack" /\ ~Full(prior2[1])) =>
        /\ Length(This) = Length(prior2[1])
        /\ Content(This) = Content(prior2[1])

\* C5 witness: the pair on a queue neither empty nor full whose front is not
\* slot 0 and whose pushed element lands in a slot before the front.
C5_Witness ==
    /\ idiom = "PushBack;PopBack"
    /\ ~Full(prior2[1]) /\ ~Empty(prior2[1])
    /\ prior2[1].m_Head # 0
    /\ prior2[1].m_Head + Length(prior2[1]) >= Capacity(prior2[1])
    /\ call.name = "PopBack"

\* C5 second case: the pair on an empty queue whose m_Head is not 0.
C5_WitnessEmpty ==
    /\ idiom = "PushBack;PopBack"
    /\ Empty(prior2[1])
    /\ prior2[1].m_Head # 0

\* C6: on a non-empty queue of length L, Rotate of any multiple of L
\* (positive or negative) leaves the length L and every element at its index.
C6_RotateMultipleOfLength ==
    (call.name = "Rotate" /\ ~Empty(prior) /\ call.arg % Length(prior) = 0) =>
        /\ Length(This) = Length(prior)
        /\ Content(This) = Content(prior)

\* C6 witness: Rotate of a negative multiple of L other than -L, on a queue
\* of L >= 2 distinct elements that is not full and whose front is not slot 0.
C6_Witness ==
    /\ call.name = "Rotate"
    /\ Length(prior) >= 2 /\ ~Full(prior) /\ prior.m_Head # 0
    /\ Distinct(Content(prior))
    /\ call.arg < 0 /\ call.arg # -Length(prior) /\ call.arg # INT_MIN
    /\ call.arg % Length(prior) = 0

\* C7: Rotate(k) then Rotate(-k) restores the length and every element at
\* its index, whatever the fullness of the queue.
C7_RotateThereAndBack ==
    (idiom = "Rotate;Rotate") =>
        /\ Length(This) = Length(prior2[1])
        /\ Content(This) = Content(prior2[1])

\* C7 witness: the pair on a full queue of capacity 3 or more, with k > 0 no
\* multiple of the length and the content between the two calls other than
\* the content before them.
C7_Witness ==
    /\ idiom = "Rotate;Rotate"
    /\ Full(prior2[1]) /\ Capacity(prior2[1]) >= 3
    /\ call.arg < 0 /\ call.arg % Length(prior2[1]) # 0
    /\ Content(prior) # Content(prior2[1])

\* C7 second case: the pair with k < 0 on a queue of length 1 whose front is
\* not slot 0 (both calls pass through the empty queue).
C7_WitnessLengthOne ==
    /\ idiom = "Rotate;Rotate"
    /\ Length(prior2[1]) = 1 /\ prior2[1].m_Head # 0
    /\ call.arg > 0

\* C8: after Reset(), HeadOff() is 0.
C8_ResetHeadOffZero ==
    (call.name = "Reset") => HeadOff(This) = 0

\* C9: Reset() changes neither the length nor the element at any index of
\* the content.
C9_ResetKeepsContent ==
    (call.name = "Reset") =>
        /\ Length(This) = Length(prior)
        /\ Content(This) = Content(prior)

\* C10: Reset() called twice in a row leaves the object (head, length and
\* slots) as the first call left it.
C10_ResetTwiceIsOnce ==
    (idiom = "Reset;Reset") => This = prior

\* The object after nCount PopHead() calls.
RECURSIVE PopHeadTimes(_, _)
PopHeadTimes(q, nCount) ==
    IF nCount <= 0 THEN q ELSE PopHeadTimes(PopHead(q), nCount - 1)

\* C11: for 0 <= i < length, operator[](i) is the element Head() returns
\* after i PopHead() calls on a copy of the queue; operator[](0) is Head()
\* and operator[](length-1) is Back().
C11_IndexIsPoppedHead ==
    /\ \A nIndex \in 0 .. Length(This) - 1 :
           At(This, nIndex) = HeadValue(PopHeadTimes(This, nIndex))
    /\ ~Empty(This) =>
           /\ At(This, 0) = HeadValue(This)
           /\ At(This, Length(This) - 1) = Back(This)

\* C11 witness: a queue of three elements, not all equal, whose content
\* wraps from the last slot to slot 0.
C11_Witness ==
    /\ Length(This) >= 3
    /\ m_Head # 0
    /\ At(This, 0) # At(This, Length(This) - 1)
    /\ At(This, 1) # At(This, 2)

\* C12: PopHead() and PopBack() on an empty queue change nothing; on a
\* non-empty queue PopHead() sets head to (head + 1) mod N and takes one off
\* the length, PopBack() takes one off the length and leaves head, and
\* neither writes a slot.
C12_PopFrame ==
    /\ (call.name \in {"PopHead", "PopBack"} /\ Empty(prior)) => This = prior
    /\ (call.name = "PopHead" /\ ~Empty(prior)) =>
           /\ m_Head = (prior.m_Head + 1) % Capacity(prior)
           /\ m_CurrSize = prior.m_CurrSize - 1
           /\ m_CircleQ = prior.m_CircleQ
    /\ (call.name = "PopBack" /\ ~Empty(prior)) =>
           /\ m_Head = prior.m_Head
           /\ m_CurrSize = prior.m_CurrSize - 1
           /\ m_CircleQ = prior.m_CircleQ

\* C12 witness: PopHead on a queue whose front is the last slot, holding a
\* value other than the default one.
C12_Witness ==
    /\ call.name = "PopHead"
    /\ ~Empty(prior) /\ Capacity(prior) >= 2
    /\ prior.m_Head = Capacity(prior) - 1
    /\ HeadValue(prior) # DefaultValue

\* C12 further cases: PopBack on a non-empty queue, a pop on an empty queue
\* whose m_Head is not 0.
C12_WitnessPopBack ==
    call.name = "PopBack" /\ Length(prior) >= 2 /\ prior.m_Head # 0

C12_WitnessEmpty ==
    call.name \in {"PopHead", "PopBack"} /\ Empty(prior) /\ prior.m_Head # 0

\* C16: a push gives length 1 from length 0, length + 1 from 0 < length < N
\* and N from N; a pop gives length - 1 from length >= 1 and 0 from 0.
C16_LengthTransitions ==
    /\ call.name \in {"PushHead", "PushBack"} =>
           /\ Length(prior) = 0 => Length(This) = 1
           /\ (0 < Length(prior) /\ Length(prior) < Capacity(prior)) =>
                  Length(This) = Length(prior) + 1
           /\ Length(prior) = Capacity(prior) => Length(This) = Capacity(prior)
    /\ call.name \in {"PopHead", "PopBack"} =>
           /\ Length(prior) >= 1 => Length(This) = Length(prior) - 1
           /\ Length(prior) = 0 => Length(This) = 0

\* C16 witness: PushHead on a full queue of capacity 2 or more.
C16_Witness ==
    /\ call.name = "PushHead"
    /\ Full(prior) /\ Capacity(prior) >= 2
    /\ Length(This) = Capacity(This)

\* C16 further cases: a pop that empties the queue, a pop on the empty queue.
C16_WitnessLastPop ==
    call.name \in {"PopHead", "PopBack"} /\ Length(prior) = 1 /\ Empty(This)

C16_WitnessEmptyPop ==
    call.name \in {"PopHead", "PopBack"} /\ Empty(prior) /\ Empty(This)

\* C18: PushHead(v) or PushBack(v) on an empty queue, whatever m_Head was,
\* stores v in slot 0 and sets head = 0 and length = 1, so that HeadOff() and
\* BackOff() are 0.
C18_PushOnEmpty ==
    (call.name \in {"PushHead", "PushBack"} /\ Empty(prior)) =>
        /\ m_CircleQ[0] = call.arg
        /\ m_Head = 0
        /\ m_CurrSize = 1
        /\ HeadOff(This) = 0
        /\ BackOff(This) = 0

\* C18 witness: PushHead on an empty queue whose m_Head is not 0, of a value
\* slot 0 did not hold.
C18_Witness ==
    /\ call.name = "PushHead"
    /\ Empty(prior) /\ prior.m_Head # 0
    /\ prior.m_CircleQ[0] # call.arg

\* C18 second case: the same with PushBack.
C18_WitnessPushBack ==
    /\ call.name = "PushBack"
    /\ Empty(prior) /\ prior.m_Head # 0
    /\ prior.m_CircleQ[0] # call.arg

\* C19: on a queue that is not full, PushHead(x) then PopHead() restores the
\* length and the content; on a full queue the pair loses the old back
\* element and ends with length N - 1.
C19_PushHeadPopHead ==
    (idiom = "PushHead;PopHead") =>
        IF Full(prior2[1])
        THEN /\ Length(This) = Capacity(This) - 1
             /\ Content(This) = SubSeq(Content(prior2[1]), 1, Capacity(This) - 1)
        ELSE /\ Length(This) = Length(prior2[1])
             /\ Content(This) = Content(prior2[1])

\* C19 witness: the pair on a queue neither empty nor full whose front is
\* slot 0 (the pushed element wraps to the last slot) and differs from the
\* pushed element.
C19_Witness ==
    /\ idiom = "PushHead;PopHead"
    /\ ~Full(prior2[1]) /\ Length(prior2[1]) >= 2
    /\ prior2[1].m_Head = 0
    /\ HeadValue(prior) # HeadValue(prior2[1])
    /\ Content(prior2[1])[1] # Content(prior2[1])[2]

\* C19 further cases: the pair on a full queue, and on an empty queue whose
\* m_Head is not 0.
C19_WitnessFull ==
    /\ idiom = "PushHead;PopHead"
    /\ Full(prior2[1]) /\ Capacity(prior2[1]) >= 3
    /\ Content(prior2[1])[1] # Content(prior2[1])[Capacity(This)]

C19_WitnessEmpty ==
    idiom = "PushHead;PopHead" /\ Empty(prior2[1]) /\ prior2[1].m_Head # 0

\* The sequence s shifted cyclically by k: the element at each new index i
\* (from 0) is the old element at index (i + k) mod Len(s).
Shifted(s, k) == [i \in 1 .. Len(s) |-> s[((i - 1 + k) % Len(s)) + 1]]

\* The bounded sequence of capacity N after the call name(arg) on s.
AbstractCall(s, N, name, arg) ==
    IF name = "PushBack"
    THEN IF Len(s) = N THEN Tail(s) \o <<arg>> ELSE s \o <<arg>>
    ELSE IF name = "PushHead"
    THEN IF Len(s) = N THEN <<arg>> \o SubSeq(s, 1, N - 1) ELSE <<arg>> \o s
    ELSE IF name = "PopHead"
    THEN IF s = <<>> THEN s ELSE Tail(s)
    ELSE IF name = "PopBack"
    THEN IF s = <<>> THEN s ELSE SubSeq(s, 1, Len(s) - 1)
    ELSE IF name = "Clear"
    THEN <<>>
    ELSE IF name = "Rotate"
    THEN IF s = <<>> THEN s ELSE Shifted(s, arg)
    ELSE s

\* C14: from the empty queue, over every sequence of PushHead, PushBack,
\* PopHead, PopBack, Clear and Rotate(k) calls, the content equals a bounded
\* sequence run side by side.  The two start equal (empty) and stay equal
\* exactly if every call takes the content to what the bounded sequence's
\* operation makes of the content before it, which is what is stated.
C14_RefinesBoundedSequence ==
    (call.name \in {"PushHead", "PushBack", "PopHead", "PopBack", "Clear", "Rotate"}) =>
        Content(This) =
            AbstractCall(Content(prior), Capacity(prior), call.name, call.arg)

\* C14 for the calls other than Rotate(INT_MIN): holds.
C14_RefinesBoundedSequenceDefined ==
    (/\ call.name \in {"PushHead", "PushBack", "PopHead", "PopBack", "Clear", "Rotate"}
     /\ ~(call.name = "Rotate" /\ call.arg = INT_MIN)) =>
        Content(This) =
            AbstractCall(Content(prior), Capacity(prior), call.name, call.arg)

\* C15: on a non-empty queue of length L, Rotate(k) for every integer k keeps
\* the length and makes the element at each new index i the old element at
\* index (i + k) mod L.
C15_RotateShifts ==
    (call.name = "Rotate" /\ ~Empty(prior)) =>
        /\ Length(This) = Length(prior)
        /\ Content(This) = Shifted(Content(prior), call.arg)

\* C15 for every k other than INT_MIN: holds.
C15_RotateShiftsDefined ==
    (call.name = "Rotate" /\ ~Empty(prior) /\ call.arg # INT_MIN) =>
        /\ Length(This) = Length(prior)
        /\ Content(This) = Shifted(Content(prior), call.arg)

\* C20: on a full queue, Rotate(k) for every integer k leaves every slot as
\* it was and ends with head = (head + k) mod N and length = N.
C20_RotateFullIsHeadShift ==
    (call.name = "Rotate" /\ Full(prior)) =>
        /\ m_CircleQ = prior.m_CircleQ
        /\ m_Head = (prior.m_Head + call.arg) % Capacity(prior)
        /\ m_CurrSize = Capacity(prior)

\* C20 for every k other than INT_MIN: holds.
C20_RotateFullIsHeadShiftDefined ==
    (call.name = "Rotate" /\ Full(prior) /\ call.arg # INT_MIN) =>
        /\ m_CircleQ = prior.m_CircleQ
        /\ m_Head = (prior.m_Head + call.arg) % Capacity(prior)
        /\ m_CurrSize = Capacity(prior)

\* C13: on a newly constructed queue of capacity 3, PushBack(1); PushBack(2);
\* PushBack(3) gives length 3, front 1 and back 3; PushBack(4) gives content
\* 2, 3, 4 with length 3; PopHead() gives 3, 4 with length 2; PushHead(9)
\* gives 9, 3, 4 with length 3; Rotate(1) gives 3, 4, 9.
C13_Scenario ==
    /\ step = 3 => Length(This) = 3 /\ HeadValue(This) = 1 /\ Back(This) = 3
    /\ step = 4 => Length(This) = 3 /\ Content(This) = <<2, 3, 4>>
    /\ step = 5 => Length(This) = 2 /\ Content(This) = <<3, 4>>
    /\ step = 6 => Length(This) = 3 /\ Content(This) = <<9, 3, 4>>
    /\ step = 7 => Content(This) = <<3, 4, 9>>

\* C13 witness: the seven calls of the scenario have been made.
C13_Witness ==
    step = 7 /\ call = [name |-> "Rotate", arg |-> 1] /\ Capacity(This) = 3

\* C17: Clear() sets head = 0 and length = 0 and leaves every slot; the calls
\* made after Clear() give the lengths and contents that the same calls give
\* on a newly constructed queue.
C17_ClearIsFresh ==
    /\ call.name = "Clear" =>
           /\ m_Head = 0
           /\ m_CurrSize = 0
           /\ m_CircleQ = prior.m_CircleQ
    /\ twin # <<>> =>
           /\ Length(This) = Length(twin[1])
           /\ Content(This) = Content(twin[1])

\* C17 when no call after Clear() is Reset(): holds under SpecAfterClearNoReset,
\* and is reached with slots that differ between the two queues.
C17_ClearedDiffersInSlots ==
    /\ twin # <<>>
    /\ call.name # "Clear"
    /\ ~Empty(This)
    /\ m_CircleQ # twin[1].m_CircleQ

====
